---- MODULE Spec2Model ----
(***************************************************************************)
(* rabbitui: a terminal dashboard for the RabbitMQ management API.         *)
(*                                                                         *)
(* The module models the pane/tab engine of src/main.rs, the three panes   *)
(* of src/views and the widgets they compose.  The specifications are     *)
(* stated over the same variables:                                         *)
(*   Spec       the program: main(), the UI loop, the TabsManager, the     *)
(*              three panes and the queue pane's refresh thread;           *)
(*   SpecList   a Datatable<T> driven by next()/previous() alone;          *)
(*   SpecFiles  a FileNavigator driven by its four operations alone;       *)
(*   SpecQueues the QueuesPane driven through its StatefulPane interface   *)
(*              (handle_key, update, draw) with its refresh thread;        *)
(*   SpecRefresh, SpecPanes, SpecQuit, SpecConfirm, SpecNotif              *)
(*              the UI loop in worlds that open the overlays, arm the      *)
(*              confirmation, raise the notifications and quit;            *)
(*   SpecChart  the overview pane's series under a long run of updates.    *)
(***************************************************************************)
EXTENDS Integers, Sequences, FiniteSets, TLC

VARIABLES
    overflow_checks, \* build profile: TRUE = arithmetic overflow panics (debug),
                     \* FALSE = it wraps (release)
    lt,              \* SpecList: the Datatable under test;
                     \* SpecFiles: the FileNavigator under test
    lt0,             \* SpecList: the Datatable as it was drawn in Init;
                     \* SpecFiles: the FileNavigator before the last call
    lops,            \* SpecList, SpecFiles: the calls made so far, in order
    lpanic,          \* SpecList, SpecFiles: a call panicked
    pc,              \* position of main(): "ping", "new", "draw", "event", "exit",
                     \* "panic"
    tabs,            \* TabsManager.tabs.index
    overview,        \* panes[0]: OverviewPane
    exchange,        \* panes[1]: ExchangePane
    queues,          \* panes[2]: QueuesPane
    data_chan,       \* QueuesPane.data_chan: the mpsc queue, oldest first
    rx_alive,        \* the Receiver end of data_chan has not been dropped
    data_handle,     \* QueuesPane.data_handle: the refresh thread
    calls,           \* ManagementClient calls made by the last dispatched event
    last             \* what the last step of the UI loop did

vars == <<overflow_checks, lt, lt0, lops, lpanic, pc, tabs, overview, exchange,
          queues, data_chan, rx_alive, data_handle, calls, last>>

listVars == <<lt, lt0, lops, lpanic>>
appVars == <<pc, tabs, overview, exchange, queues, data_chan, rx_alive,
             data_handle, calls, last>>

(***************************************************************************)
(* Bounds of the model.                                                    *)
(***************************************************************************)
\* usize is modelled UsizeBits wide (64 on the targets the program builds for)
UsizeBits == 8
\* longest list drawn for a Datatable in SpecList
MaxLen == 3
\* most next()/previous() calls made in SpecList
MaxOps == 4
\* a selection index is followed no further than MaxSel away from either
\* end of the usize range (an empty table lets a release build count on)
MaxSel == 3
\* most results waiting in data_chan (mpsc::channel() itself is unbounded)
MaxQueue == 2
\* most ticks dispatched in one run of the program
MaxTicks == 2

UsizeMax == 2 ^ UsizeBits - 1

(***************************************************************************)
(* Option<usize>                                                           *)
(***************************************************************************)
None == <<>>
Some(i) == <<i>>
IsSome(o) == o # None
Unwrap(o) == o[1]

\* a - b in usize where the build wraps
wrapping_sub(a, b) == (a - b) % (UsizeMax + 1)

InWindow(o) ==
    IF o = None THEN TRUE
    ELSE IF Unwrap(o) <= MaxSel THEN TRUE ELSE Unwrap(o) >= UsizeMax - MaxSel

(***************************************************************************)
(* Datatable<T>  (src/main.rs)                                             *)
(***************************************************************************)
\* Datatable::new: the rows given, TableState::default() selects nothing
Datatable_new(data) == [entries |-> data, selected |-> None]

\* Datatable::default
Datatable_default == Datatable_new(<<>>)

\* `self.data.entries.len() - 1` is evaluated only in the arms that read it
Datatable_next_panics(t, oc) ==
    oc /\ IsSome(t.selected) /\ Len(t.entries) = 0

Datatable_previous_panics(t, oc) ==
    oc /\ IsSome(t.selected) /\ Unwrap(t.selected) = 0 /\ Len(t.entries) = 0

Datatable_next_nowrap(t) ==
    [t EXCEPT !.selected =
        IF t.selected = None THEN Some(0) ELSE Some(Unwrap(t.selected) + 1)]

Datatable_next(t) ==
    LET i == IF t.selected = None THEN 0
             ELSE IF Unwrap(t.selected) >= wrapping_sub(Len(t.entries), 1)
                  THEN 0
                  ELSE Unwrap(t.selected) + 1
    IN [t EXCEPT !.selected = Some(i)]

Datatable_previous_clamp(t) ==
    LET i == IF t.selected = None THEN 0
             ELSE IF Unwrap(t.selected) = 0 THEN 0
                  ELSE Unwrap(t.selected) - 1
    IN [t EXCEPT !.selected = Some(i)]

Datatable_previous(t) ==
    LET i == IF t.selected = None THEN 0
             ELSE IF Unwrap(t.selected) = 0
                  THEN wrapping_sub(Len(t.entries), 1)
                  ELSE Unwrap(t.selected) - 1
    IN [t EXCEPT !.selected = Some(i)]

(***************************************************************************)
(* TabsState<L> and TabsManager<N>  (src/main.rs)                          *)
(***************************************************************************)
\* App::new builds a TabsManager<_, 3>
N == 3
Titles == <<"Overview", "Exchanges", "Queues">>

TabsState_new == 0

TabsState_next_nowrap(index) == index + 1

TabsState_next(index) == (index + 1) % N

TabsState_previous_clamp(index) == IF index > 0 THEN index - 1 ELSE 0

TabsState_previous(index) == IF index > 0 THEN index - 1 ELSE N - 1

TabsManager_next(index) == TabsState_next(index)
TabsManager_prev(index) == TabsState_previous(index)

(***************************************************************************)
(* ConfirmationBox  (src/widgets/confirmation.rs)                          *)
(***************************************************************************)
\* a box that starts on Yes
ConfirmationBox_default_yes ==
    [table |-> [Datatable_new(<<"No", "Yes">>) EXCEPT !.selected = Some(1)]]

ConfirmationBox_default ==
    [table |-> [Datatable_new(<<"No", "Yes">>) EXCEPT !.selected = Some(0)]]

ConfirmationBox_reset(c) == [c EXCEPT !.table.selected = Some(0)]

\* an is_confirmed() that takes any selection for a Yes
ConfirmationBox_is_confirmed_any(c) == TRUE

ConfirmationBox_is_confirmed(c) == c.table.selected = Some(1)

\* a next() that stops at the last option
ConfirmationBox_next_saturates(c) ==
    IF c.table.selected = Some(1) THEN c
    ELSE [c EXCEPT !.table = Datatable_next(c.table)]

ConfirmationBox_next(c) == [c EXCEPT !.table = Datatable_next(c.table)]

ConfirmationBox_previous(c) == [c EXCEPT !.table = Datatable_previous(c.table)]

(***************************************************************************)
(* The local filesystem seen by FileNavigator: a fixed tree.  A path is    *)
(* the sequence of its components; <<>> is the filesystem root.            *)
(***************************************************************************)
HomeDir == <<"home", "u">>

\* fs::read_dir: the names in a directory, in the order the OS lists them
ReadDir ==
    (<<>> :> <<"home">>) @@
    (<<"home">> :> <<"u">>) @@
    (<<"home", "u">> :> <<".cfg", "docs", "msg.txt", "tmp">>) @@
    (<<"home", "u", "docs">> :> <<"a.txt">>) @@
    (<<"home", "u", "tmp">> :> <<>>)

\* Path::is_file
is_file(f) == f \notin DOMAIN ReadDir

\* Path::parent: None at the filesystem root
Path_parent(p) == IF Len(p) = 0 THEN None ELSE Some(SubSeq(p, 1, Len(p) - 1))

\* str::starts_with(".") of the characters of a name
StartsWithDot(name) == name \in {".cfg"}

(***************************************************************************)
(* FileNavigator  (src/widgets/files.rs)                                   *)
(***************************************************************************)
\* file_name_helper: the last component, "" when there is none
file_name_helper(f) == IF Len(f) = 0 THEN "" ELSE f[Len(f)]

\* the paths of s whose file name does not start with ".", in order
RECURSIVE skip_dotfiles(_)
skip_dotfiles(s) ==
    IF s = <<>> THEN <<>>
    ELSE IF StartsWithDot(file_name_helper(Head(s)))
         THEN skip_dotfiles(Tail(s))
         ELSE <<Head(s)>> \o skip_dotfiles(Tail(s))

\* a listing that selects nothing
table_from_path_unselected(path) ==
    Datatable_new(skip_dotfiles(
        [i \in 1..Len(ReadDir[path]) |-> Append(path, ReadDir[path][i])]))

table_from_path(path) ==
    LET all == [i \in 1..Len(ReadDir[path]) |-> Append(path, ReadDir[path][i])]
        files == skip_dotfiles(all)
        d == Datatable_new(files)
    IN IF files # <<>> THEN [d EXCEPT !.selected = Some(0)] ELSE d

FileNavigator_new(root) == [root |-> root, file_table |-> table_from_path(root)]

FileNavigator_default == FileNavigator_new(HomeDir)

FileNavigator_next(nav) == [nav EXCEPT !.file_table = Datatable_next(nav.file_table)]

FileNavigator_previous(nav) ==
    [nav EXCEPT !.file_table = Datatable_previous(nav.file_table)]

\* a next_table that lists the new directory but stays where it was
FileNavigator_next_table_keeps_root(nav, root) ==
    [root |-> nav.root, file_table |-> table_from_path(root)]

FileNavigator_next_table(nav, root) ==
    [root |-> root, file_table |-> table_from_path(root)]

FileNavigator_select_parent(nav) ==
    IF IsSome(Path_parent(nav.root))
    THEN FileNavigator_next_table(nav, Unwrap(Path_parent(nav.root)))
    ELSE nav

\* `self.file_table.data.get()[i]` panics when i is no index of the listing
FileNavigator_select_panics(nav) ==
    /\ IsSome(nav.file_table.selected)
    /\ Unwrap(nav.file_table.selected) >= Len(nav.file_table.entries)

\* FileNavigator::select: the navigator afterwards and the path returned
FileNavigator_select(nav) ==
    IF IsSome(nav.file_table.selected)
    THEN LET f == nav.file_table.entries[Unwrap(nav.file_table.selected) + 1]
         IN IF is_file(f)
            THEN [nav |-> nav, ret |-> Some(f)]
            ELSE [nav |-> FileNavigator_next_table(nav, f), ret |-> None]
    ELSE [nav |-> nav, ret |-> None]

(***************************************************************************)
(* The environment.  A world names the inputs a specification draws from:  *)
(* the keys pressed and the answers of the management API.                 *)
(***************************************************************************)
QueueInfo(name) == [name |-> name, vhost |-> "/"]

\* results of get_overview: queue_totals.{messages, messages_ready,
\* messages_unacked}, message_stats.{disk_reads,disk_writes}_details.rate
Overviews ==
    { [messages |-> 3, messages_ready |-> 2, messages_unacked |-> 1,
       disk_reads_rate |-> 0, disk_writes_rate |-> 1] }

\* what one key press meets: the clipboard works or fails, pop_queue_item
\* answers a message, no message, or fails, fs::read_to_string works or fails
Envs ==
    { [clipboard |-> TRUE, pop |-> "msg", read |-> TRUE],
      [clipboard |-> TRUE, pop |-> "empty", read |-> TRUE],
      [clipboard |-> TRUE, pop |-> "err", read |-> TRUE],
      [clipboard |-> FALSE, pop |-> "msg", read |-> FALSE] }

\* termion keys: Char('\n') is "Enter", Ctrl('p') is "^p", "x" any key no
\* handler names
Keys == {"q", "h", "l", "j", "k", "p", "^p", "d", "f", "Enter", "Backspace",
         "?", "x"}

\* the program as a whole: tab switching and the keys every pane knows
AppWorld ==
    [keys |-> {"h", "l", "j", "k", "?", "x"},
     queue_lists |-> { <<QueueInfo("qa")>> },
     exchange_lists |-> { <<"ex1">>, <<"ex1", "ex2">> },
     binding_lists |-> { <<"b1">> },
     fetch_ok |-> BOOLEAN]

\* the queue pane: row navigation, publish and pop, refreshes of any length
QueuesWorld ==
    [keys |-> {"j", "k", "p", "^p"},
     queue_lists |-> { <<>>, <<QueueInfo("qa")>>,
                       <<QueueInfo("qb"), QueueInfo("qa")>> },
     exchange_lists |-> { <<"ex1">> },
     binding_lists |-> { <<"b1">> },
     fetch_ok |-> {TRUE}]

(***************************************************************************)
(* QueuesPane  (src/views/queues.rs)                                       *)
(***************************************************************************)
QueuesPane_new(data) ==
    [table |-> Datatable_new(data),
     confirmation |-> ConfirmationBox_default,
     explorer |-> FileNavigator_default,
     should_notif_paste |-> FALSE,
     should_notif_copy |-> FALSE,
     should_notif_no_msg |-> FALSE,
     should_notif_purged |-> FALSE,
     should_notif_from_file |-> FALSE,
     should_show_help |-> FALSE,
     should_confirm |-> FALSE,
     should_open_files |-> FALSE]

\* the outcome of a handler: the pane afterwards, whether it panicked, and
\* the ManagementClient calls it made
Done(pane, cs) == [pane |-> pane, panic |-> FALSE, calls |-> cs]
Panicked(pane, cs) == [pane |-> pane, panic |-> TRUE, calls |-> cs]

\* `self.table.data.get()[i]` for the selected i
RowInBounds(t) == IsSome(t.selected) /\ Unwrap(t.selected) < Len(t.entries)
SelectedRow(t) == t.entries[Unwrap(t.selected) + 1]

\* a handle_key that leaves the notifications of the key before
QueuesPane_clear_notifs_keeps(self) == self

\* the first five statements of QueuesPane::handle_key
QueuesPane_clear_notifs(self) ==
    [self EXCEPT !.should_notif_copy = FALSE,
                 !.should_notif_paste = FALSE,
                 !.should_notif_no_msg = FALSE,
                 !.should_notif_purged = FALSE,
                 !.should_notif_from_file = FALSE]

QueuesPane_handle_key(self, key, env, oc) ==
    LET p == QueuesPane_clear_notifs(self)
        t == p.table
    IN
    CASE key = "j" ->
           IF p.should_confirm
           THEN Done([p EXCEPT !.confirmation = ConfirmationBox_next(@)], <<>>)
           ELSE IF p.should_open_files
           THEN IF Datatable_next_panics(p.explorer.file_table, oc)
                THEN Panicked(p, <<>>)
                ELSE Done([p EXCEPT !.explorer = FileNavigator_next(@)], <<>>)
           ELSE IF Datatable_next_panics(t, oc)
                THEN Panicked(p, <<>>)
                ELSE Done([p EXCEPT !.table = Datatable_next(@)], <<>>)
      [] key = "k" ->
           IF p.should_confirm
           THEN Done([p EXCEPT !.confirmation = ConfirmationBox_previous(@)], <<>>)
           ELSE IF p.should_open_files
           THEN IF Datatable_previous_panics(p.explorer.file_table, oc)
                THEN Panicked(p, <<>>)
                ELSE Done([p EXCEPT !.explorer = FileNavigator_previous(@)], <<>>)
           ELSE IF Datatable_previous_panics(t, oc)
                THEN Panicked(p, <<>>)
                ELSE Done([p EXCEPT !.table = Datatable_previous(@)], <<>>)
      [] key = "p" ->
           IF IsSome(t.selected)
           THEN IF ~env.clipboard \/ ~RowInBounds(t)
                THEN Panicked(p, <<>>)
                ELSE Done([p EXCEPT !.should_notif_paste = TRUE],
                          << <<"post_queue_payload", SelectedRow(t).name,
                               SelectedRow(t).vhost>> >>)
           ELSE Done(p, <<>>)
      [] key = "^p" ->
           IF IsSome(t.selected)
           THEN IF ~RowInBounds(t)
                THEN Panicked(p, <<>>)
                ELSE LET c == << <<"pop_queue_item", SelectedRow(t).name,
                                   SelectedRow(t).vhost>> >>
                     IN CASE env.pop = "err" -> Panicked(p, c)
                          [] env.pop = "msg" ->
                               IF env.clipboard
                               THEN Done([p EXCEPT !.should_notif_copy = TRUE], c)
                               ELSE Panicked(p, c)
                          [] env.pop = "empty" ->
                               Done([p EXCEPT !.should_notif_no_msg = TRUE], c)
           ELSE Done(p, <<>>)
      [] key = "d" ->
           IF IsSome(t.selected)
           THEN Done([p EXCEPT !.should_confirm = TRUE], <<>>)
           ELSE Done(p, <<>>)
      [] key = "f" ->
           Done([p EXCEPT !.should_open_files = ~p.should_open_files], <<>>)
      [] key = "Enter" ->
           IF p.should_confirm
           THEN LET closed == [p EXCEPT
                                 !.confirmation = ConfirmationBox_reset(@),
                                 !.should_confirm = FALSE]
                IN IF ConfirmationBox_is_confirmed(p.confirmation)
                      /\ IsSome(t.selected)
                   THEN IF ~RowInBounds(t)
                        THEN Panicked(p, <<>>)
                        ELSE Done([closed EXCEPT !.should_notif_purged = TRUE],
                                  << <<"purge_queue", SelectedRow(t).name,
                                       SelectedRow(t).vhost>> >>)
                   ELSE Done(closed, <<>>)
           ELSE IF p.should_open_files
           THEN IF FileNavigator_select_panics(p.explorer)
                THEN Panicked(p, <<>>)
                ELSE LET r == FileNavigator_select(p.explorer)
                         q == [p EXCEPT !.explorer = r.nav]
                     IN IF IsSome(r.ret) /\ IsSome(t.selected)
                        THEN IF ~env.read \/ ~RowInBounds(t)
                             THEN Panicked(q, <<>>)
                             ELSE Done([q EXCEPT !.should_open_files = FALSE,
                                                 !.should_notif_from_file = TRUE],
                                       << <<"post_queue_payload",
                                            SelectedRow(t).name,
                                            SelectedRow(t).vhost>> >>)
                        ELSE Done(q, <<>>)
           ELSE Done(p, <<>>)
      [] key = "Backspace" ->
           IF p.should_open_files
           THEN Done([p EXCEPT !.explorer = FileNavigator_select_parent(@)], <<>>)
           ELSE Done(p, <<>>)
      [] key = "?" ->
           Done([p EXCEPT !.should_show_help = ~p.should_show_help], <<>>)
      [] OTHER -> Done(p, <<>>)

\* how many results one update() takes from the channel
QueuesPane_update_takes_all(chan) == Len(chan)

QueuesPane_update_takes(chan) == IF Len(chan) > 0 THEN 1 ELSE 0

\* an update() that builds a new Datatable from the result
QueuesPane_update_reset(self, chan) ==
    [pane |-> IF Len(chan) > 0
              THEN [self EXCEPT !.table = Datatable_new(chan[1])] ELSE self,
     chan |-> IF Len(chan) > 0 THEN Tail(chan) ELSE chan]

\* an update() that takes the newest pending result and leaves the older
\* ones in the channel
QueuesPane_update_takes_newest(self, chan) ==
    [pane |-> IF Len(chan) > 0
              THEN [self EXCEPT !.table.entries = chan[Len(chan)]] ELSE self,
     chan |-> IF Len(chan) > 0 THEN SubSeq(chan, 1, Len(chan) - 1) ELSE chan]

\* QueuesPane::update: `try_iter().next()` takes the oldest pending result,
\* if there is one, and it replaces the rows; the TableState is kept
QueuesPane_update(self, chan) ==
    LET n == QueuesPane_update_takes(chan)
    IN [pane |-> IF n > 0 THEN [self EXCEPT !.table.entries = chan[1]] ELSE self,
        chan |-> SubSeq(chan, n + 1, Len(chan))]

\* a draw that drops the rows it rendered
QueuesPane_draw_clears(self) == [self EXCEPT !.table.entries = <<>>]

\* a draw that closes the help overlay it rendered
QueuesPane_draw_closes(self) == [self EXCEPT !.should_show_help = FALSE]

\* QueuesPane::draw renders from the fields and writes none of them
QueuesPane_draw(self) == self

(***************************************************************************)
(* ExchangePane  (src/views/exchange.rs)                                   *)
(***************************************************************************)
ExchangePane_new(data) ==
    [table |-> Datatable_new(data),
     bindings_table |-> Datatable_default,
     should_fetch_bindings |-> FALSE,
     should_draw_popout |-> FALSE,
     should_show_help |-> FALSE]

ExchangePane_forward_table(self, oc) ==
    IF self.should_draw_popout
    THEN IF Datatable_next_panics(self.bindings_table, oc)
         THEN Panicked(self, <<>>)
         ELSE Done([self EXCEPT !.bindings_table = Datatable_next(@)], <<>>)
    ELSE IF Datatable_next_panics(self.table, oc)
         THEN Panicked(self, <<>>)
         ELSE Done([self EXCEPT !.table = Datatable_next(@)], <<>>)

ExchangePane_back_table(self, oc) ==
    IF self.should_draw_popout
    THEN IF Datatable_previous_panics(self.bindings_table, oc)
         THEN Panicked(self, <<>>)
         ELSE Done([self EXCEPT !.bindings_table = Datatable_previous(@)], <<>>)
    ELSE IF Datatable_previous_panics(self.table, oc)
         THEN Panicked(self, <<>>)
         ELSE Done([self EXCEPT !.table = Datatable_previous(@)], <<>>)

ExchangePane_handle_key(self, key, env, oc) ==
    CASE key = "j" -> ExchangePane_forward_table(self, oc)
      [] key = "k" -> ExchangePane_back_table(self, oc)
      [] key = "Enter" ->
           Done([self EXCEPT !.should_fetch_bindings = TRUE,
                             !.should_draw_popout = ~self.should_draw_popout],
                <<>>)
      [] key = "?" ->
           Done([self EXCEPT !.should_show_help = ~self.should_show_help], <<>>)
      [] OTHER -> Done(self, <<>>)

\* ExchangePane::draw calls draw_popout only in the Some(i) arm of the match
\* on the selection, inside `if self.should_draw_popout`
ExchangePane_draws_popout(self) ==
    self.should_draw_popout /\ IsSome(self.table.selected)

\* a draw that fetches the bindings and leaves should_fetch_bindings set
ExchangePane_draw_refetches(self, ok, bindings) ==
    IF self.should_draw_popout /\ IsSome(self.table.selected)
          /\ self.should_fetch_bindings
    THEN IF ~RowInBounds(self.table)
         THEN Panicked(self, <<>>)
         ELSE Done([self EXCEPT !.bindings_table = Datatable_new(bindings)],
                   << <<"get_exchange_bindings", SelectedRow(self.table)>> >>)
    ELSE Done(self, <<>>)

\* ExchangePane::draw: with the popout open and a row selected, the first
\* draw after Enter fetches the bindings of the selected exchange; `ok` and
\* `bindings` are the answer of get_exchange_bindings
ExchangePane_draw(self, ok, bindings) ==
    IF self.should_draw_popout /\ IsSome(self.table.selected)
          /\ self.should_fetch_bindings
    THEN IF ~RowInBounds(self.table)
         THEN Panicked(self, <<>>)
         ELSE LET c == << <<"get_exchange_bindings", SelectedRow(self.table)>> >>
              IN IF ok
                 THEN Done([self EXCEPT
                              !.bindings_table = Datatable_new(bindings),
                              !.should_fetch_bindings = FALSE], c)
                 ELSE Panicked(self, c)
    ELSE Done(self, <<>>)

\* ExchangePane::update: a synchronous get_exchange_overview, whose failure
\* unwraps into a panic
ExchangePane_update(self, ok, data) ==
    IF ok
    THEN Done([self EXCEPT !.table.entries = data], << <<"get_exchange_overview">> >>)
    ELSE Panicked(self, << <<"get_exchange_overview">> >>)

(***************************************************************************)
(* ChartData and OverviewPane  (src/views/overview.rs)                     *)
(***************************************************************************)
X_WINDOW == 100

ChartData_default == [data |-> <<>>, counter |-> 0]

\* a push that never evicts
ChartData_push_keeps_all(c, n) ==
    [data |-> Append(c.data, <<c.counter, n>>), counter |-> c.counter + 1]

\* a push that evicts the sample it has just appended
ChartData_push_evicts_newest(c, n) ==
    LET pushed == Append(c.data, <<c.counter, n>>)
    IN [data |-> IF Len(pushed) > X_WINDOW
                 THEN SubSeq(pushed, 1, Len(pushed) - 1) ELSE pushed,
        counter |-> c.counter + 1]

ChartData_push(c, n) ==
    LET pushed == Append(c.data, <<c.counter, n>>)
    IN [data |-> IF Len(pushed) > X_WINDOW THEN Tail(pushed) ELSE pushed,
        counter |-> c.counter + 1]

\* a constructor that seeds no series
OverviewPane_new_unseeded(data) ==
    [data |-> [overall |-> ChartData_default, ready |-> ChartData_default,
               unacked |-> ChartData_default,
               disk_read_rate |-> ChartData_default,
               disk_write_rate |-> ChartData_default],
     counter |-> 0]

OverviewPane_new(data) ==
    [data |-> [overall |-> ChartData_push(ChartData_default, data.messages),
               ready |-> ChartData_push(ChartData_default, data.messages_ready),
               unacked |-> ChartData_push(ChartData_default, data.messages_unacked),
               disk_read_rate |->
                   ChartData_push(ChartData_default, data.disk_reads_rate),
               disk_write_rate |->
                   ChartData_push(ChartData_default, data.disk_writes_rate)],
     counter |-> 0]

OverviewPane_handle_key(self, key, env, oc) == Done(self, <<>>)

\* OverviewPane::update: a synchronous get_overview, whose failure unwraps
\* into a panic
OverviewPane_update(self, ok, update) ==
    IF ok
    THEN Done([self EXCEPT
                 !.counter = @ + 1,
                 !.data.ready = ChartData_push(@, update.messages_ready),
                 !.data.overall = ChartData_push(@, update.messages),
                 !.data.unacked = ChartData_push(@, update.messages_unacked),
                 !.data.disk_write_rate = ChartData_push(@, update.disk_writes_rate),
                 !.data.disk_read_rate = ChartData_push(@, update.disk_reads_rate)],
              << <<"get_overview">> >>)
    ELSE Panicked(self, << <<"get_overview">> >>)

\* OverviewPane::draw reads the series and writes nothing
OverviewPane_draw(self) == self

(***************************************************************************)
(* ChartData accessors and RChart  (src/widgets/chart.rs)                  *)
(*                                                                         *)
(* The f64 values are whole numbers here; Y_PADDING = 1.1 is kept exact by *)
(* giving the y bounds in tenths.  The folds start from NaN, which         *)
(* f64::max and f64::min drop at the first sample; every series is seeded  *)
(* with a sample before it is drawn, so the folds are over at least one.   *)
(***************************************************************************)
Y_PADDING_TENTHS == 11

ChartData_values(c) == {c.data[i][2] : i \in DOMAIN c.data}

ChartData_y_max(c) ==
    CHOOSE v \in ChartData_values(c) : \A w \in ChartData_values(c) : w <= v

ChartData_y_min(c) ==
    CHOOSE v \in ChartData_values(c) : \A w \in ChartData_values(c) : v <= w

ChartData_x_max(c) == c.counter

ChartData_last_value(c) == c.data[Len(c.data)][2]

\* a lower x bound that shows the full history
RChart_lb_zero(x_max) == 0

\* `let lb = if x_max < X_WINDOW as f64 { 0. } else { x_max - X_WINDOW as f64 }`
RChart_lb(x_max) == IF x_max < X_WINDOW THEN 0 ELSE x_max - X_WINDOW

\* RChart::draw of the series `data`: the axis bounds and the y labels it
\* hands to the Chart widget
RChart_draw(data) ==
    LET maxes == {ChartData_y_max(data[i]) : i \in DOMAIN data}
        mins == {ChartData_y_min(data[i]) : i \in DOMAIN data}
        xs == {ChartData_x_max(data[i]) : i \in DOMAIN data} \cup {0}
        y_max == CHOOSE v \in maxes : \A w \in maxes : w <= v
        y_min == CHOOSE v \in mins : \A w \in mins : v <= w
        x_max == CHOOSE v \in xs : \A w \in xs : w <= v
    IN [x_bounds |-> <<RChart_lb(x_max), x_max>>,
        y_bounds_tenths |-> <<0, y_max * Y_PADDING_TENTHS>>,
        y_labels |-> <<y_min, (y_max * Y_PADDING_TENTHS) \div 10>>]

\* the series OverviewPane puts on its two charts
MessagesPanel(self) == <<self.data.overall, self.data.ready, self.data.unacked>>

MessageRatesPanel(self) == <<self.data.disk_read_rate, self.data.disk_write_rate>>

(***************************************************************************)
(* TabsManager and App  (src/main.rs)                                      *)
(*                                                                         *)
(* The handlers work on the App as a record: the tab index, the three      *)
(* panes in the order App::new boxes them, the queue pane's channel, and   *)
(* what the call did (panicked, client calls made, panes whose handle_key  *)
(* or update was invoked).                                                 *)
(***************************************************************************)
OverviewIx == 0
ExchangeIx == 1
QueuesIx == 2

\* a pane that is not constructed yet
Unbuilt == [built |-> FALSE]

\* TabsManager::pane: the index of the pane it returns
TabsManager_pane_first(index) == 0

TabsManager_pane(index) == index

\* TabsManager::curr: the index draw_tabs highlights
TabsManager_curr(index) == index

Pane_handle_key(ix, pane, key, env, oc) ==
    CASE ix = OverviewIx -> OverviewPane_handle_key(pane, key, env, oc)
      [] ix = ExchangeIx -> ExchangePane_handle_key(pane, key, env, oc)
      [] ix = QueuesIx -> QueuesPane_handle_key(pane, key, env, oc)

\* TabsManager forwarding handle_key to pane()
TabsManager_handle_key(app, key, env, oc) ==
    LET ix == TabsManager_pane(app.tabs)
        r == Pane_handle_key(ix, app.panes[ix + 1], key, env, oc)
    IN [app EXCEPT !.panes[ix + 1] = r.pane,
                   !.panic = r.panic,
                   !.calls = r.calls,
                   !.handled = {ix}]

\* an App that switches the tab and passes the key on to the pane as well
App_handle_key_forwards(app, key, env, oc) ==
    CASE key = "l" ->
           TabsManager_handle_key([app EXCEPT !.tabs = TabsManager_next(@)],
                                  key, env, oc)
      [] key = "h" ->
           TabsManager_handle_key([app EXCEPT !.tabs = TabsManager_prev(@)],
                                  key, env, oc)
      [] OTHER -> TabsManager_handle_key(app, key, env, oc)

App_handle_key(app, key, env, oc) ==
    CASE key = "l" -> [app EXCEPT !.tabs = TabsManager_next(@)]
      [] key = "h" -> [app EXCEPT !.tabs = TabsManager_prev(@)]
      [] OTHER -> TabsManager_handle_key(app, key, env, oc)

\* StatefulPane::update of pane ix
Pane_update(app, ix, tenv) ==
    CASE ix = OverviewIx ->
           LET r == OverviewPane_update(app.panes[1], tenv.ov_ok, tenv.ov)
           IN [app EXCEPT !.panes[1] = r.pane, !.panic = r.panic,
                          !.calls = @ \o r.calls,
                          !.updated = Append(@, ix)]
      [] ix = ExchangeIx ->
           LET r == ExchangePane_update(app.panes[2], tenv.ex_ok, tenv.ex)
           IN [app EXCEPT !.panes[2] = r.pane, !.panic = r.panic,
                          !.calls = @ \o r.calls,
                          !.updated = Append(@, ix)]
      [] ix = QueuesIx ->
           LET r == QueuesPane_update(app.panes[3], app.chan)
           IN [app EXCEPT !.panes[3] = r.pane, !.chan = r.chan,
                          !.updated = Append(@, ix)]

\* the panes TabsManager::update calls update() on, in order
TabsManager_update_active(index) == <<index>>

TabsManager_update_order(index) == [i \in 1..N |-> i - 1]

\* `self.panes.iter_mut().for_each(|p| p.update())`: a panic ends the walk
RECURSIVE UpdateEach(_, _, _)
UpdateEach(app, order, tenv) ==
    IF order = <<>> \/ app.panic THEN app
    ELSE UpdateEach(Pane_update(app, Head(order), tenv), Tail(order), tenv)

TabsManager_update(app, tenv) ==
    UpdateEach(app, TabsManager_update_order(app.tabs), tenv)

App_update(app, tenv) == TabsManager_update(app, tenv)

\* App::draw: the tab bar highlights curr(), then pane() is drawn; only the
\* exchange pane's draw can write (its lazily fetched bindings)
App_draw(app, ok, bindings) ==
    LET ix == TabsManager_pane(app.tabs)
        r == CASE ix = OverviewIx -> Done(OverviewPane_draw(app.panes[1]), <<>>)
               [] ix = ExchangeIx -> ExchangePane_draw(app.panes[2], ok, bindings)
               [] ix = QueuesIx -> Done(QueuesPane_draw(app.panes[3]), <<>>)
    IN [app EXCEPT !.panes[ix + 1] = r.pane, !.panic = r.panic,
                   !.calls = r.calls, !.drawn = ix,
                   !.tab = TabsManager_curr(app.tabs)]

(***************************************************************************)
(* main  (src/main.rs)                                                     *)
(***************************************************************************)
\* the App as the handlers take it, before the call has done anything
TheApp ==
    [tabs |-> tabs, panes |-> <<overview, exchange, queues>>, chan |-> data_chan,
     panic |-> FALSE, calls |-> <<>>, handled |-> {}, updated |-> <<>>,
     drawn |-> -1, tab |-> -1]

NoStep ==
    [op |-> "none", key |-> "", handled |-> {}, updated |-> <<>>,
     drawn |-> -1, tab |-> -1, pending |-> 0, events |-> 0, draws |-> 0,
     armed |-> ""]

Min(a, b) == IF a < b THEN a ELSE b

\* where the loop goes after terminal.draw
AfterDraw == "event"

\* where the loop goes after one event is dispatched
AfterEvent_again == "event"

AfterEvent == "draw"

\* the refresh thread of QueuesPane::new
NoThread == [pc |-> "none", d |-> <<>>]

InitList ==
    /\ lt = Datatable_default
    /\ lt0 = Datatable_default
    /\ lops = <<>>
    /\ lpanic = FALSE

InitApp ==
    /\ pc = "ping"
    /\ tabs = TabsState_new
    /\ overview = Unbuilt
    /\ exchange = Unbuilt
    /\ queues = Unbuilt
    /\ data_chan = <<>>
    /\ rx_alive = FALSE
    /\ data_handle = NoThread
    /\ calls = <<>>
    /\ last = NoStep

Init ==
    /\ overflow_checks \in BOOLEAN
    /\ InitList
    /\ InitApp

\* the result of a handler becomes the state; a panic unwinds main, which
\* drops the App and with it the Receiver
Adopt(app) ==
    /\ tabs' = app.tabs
    /\ overview' = app.panes[1]
    /\ exchange' = app.panes[2]
    /\ queues' = app.panes[3]
    /\ data_chan' = app.chan
    /\ calls' = app.calls
    /\ rx_alive' = ~app.panic

\* the selections stay in the part of the usize range the model follows
Followed(app) ==
    /\ InWindow(app.panes[2].table.selected)
    /\ InWindow(app.panes[2].bindings_table.selected)
    /\ InWindow(app.panes[3].table.selected)
    /\ InWindow(app.panes[3].explorer.file_table.selected)

\* a main that goes on after a failed ping
AfterPing_ignores(ok) == "new"

\* `if let Err(_) = c.ping() { ...; return Ok(()); }`
AfterPing(ok) == IF ok THEN "new" ELSE "exit"

\* `c.ping()`: on failure main prints and returns Ok(())
Ping ==
    /\ pc = "ping"
    /\ \E ok \in BOOLEAN :
         /\ pc' = AfterPing(ok)
         /\ calls' = << <<"ping", IF ok THEN "Ok" ELSE "Err">> >>
    /\ UNCHANGED <<overflow_checks, listVars, tabs, overview, exchange, queues,
                   data_chan, rx_alive, data_handle, last>>

\* App::new, the terminal and Events::new: each pane's constructor fetches
\* its first data, and QueuesPane::new spawns the refresh thread; any of
\* the unwraps on the way may fail
AppNew(world) ==
    /\ pc = "new"
    /\ \E ok \in world.fetch_ok, ov \in Overviews, ex \in world.exchange_lists,
          qs \in world.queue_lists :
         IF ok
         THEN /\ pc' = "draw"
              /\ overview' = OverviewPane_new(ov)
              /\ exchange' = ExchangePane_new(ex)
              /\ queues' = QueuesPane_new(qs)
              /\ rx_alive' = TRUE
              /\ data_handle' = [pc |-> "fetch", d |-> <<>>]
         ELSE /\ pc' = "panic"
              /\ UNCHANGED <<overview, exchange, queues, rx_alive, data_handle>>
    /\ tabs' = TabsState_new
    /\ calls' = << <<"get_overview">>, <<"get_exchange_overview">>,
                   <<"get_queues_info">> >>
    /\ UNCHANGED <<overflow_checks, listVars, data_chan, last>>

\* history: the name of the queue that was selected when the confirmation
\* now open was armed; kept through the step that closes the confirmation,
\* "" when none is or was open, "none" when it was armed on no row
ArmedOn(app) ==
    IF queues.should_confirm THEN last.armed
    ELSE IF app.panes[3].should_confirm
         THEN IF RowInBounds(queues.table)
              THEN SelectedRow(queues.table).name ELSE "none"
         ELSE ""

\* terminal.draw(|f| app.draw(f))
Draw(world) ==
    /\ pc = "draw"
    /\ \E ok \in world.fetch_ok, bindings \in world.binding_lists :
         LET app == App_draw(TheApp, ok, bindings)
         IN /\ Adopt(app)
            /\ pc' = IF app.panic THEN "panic" ELSE AfterDraw
            /\ last' = [NoStep EXCEPT !.op = "draw", !.drawn = app.drawn,
                                      !.tab = app.tab,
                                      !.draws = Min(last.draws + 1, 2),
                                      !.armed = ArmedOn(app)]
    /\ UNCHANGED <<overflow_checks, listVars, data_handle>>

\* a loop that goes on after q
AfterQuit_continues == "draw"

\* `Key::Char('q') => { break; }`
AfterQuit == "exit"

\* Event::Input(Key::Char('q')): break, main returns and drops the App
Quit ==
    /\ pc = "event"
    /\ pc' = AfterQuit
    /\ rx_alive' = FALSE
    /\ calls' = <<>>
    /\ last' = [NoStep EXCEPT !.op = "key", !.key = "q",
                              !.events = Min(last.events + 1, 2)]
    /\ UNCHANGED <<overflow_checks, listVars, tabs, overview, exchange, queues,
                   data_chan, data_handle>>

\* Event::Input(key), any other key: app.handle_key(key)
Key(world) ==
    /\ pc = "event"
    /\ \E key \in world.keys \ {"q"}, env \in Envs :
         LET app == App_handle_key(TheApp, key, env, overflow_checks)
         IN /\ Followed(app)
            /\ Adopt(app)
            /\ pc' = IF app.panic THEN "panic" ELSE AfterEvent
            /\ last' = [NoStep EXCEPT !.op = "key", !.key = key,
                                      !.handled = app.handled,
                                      !.events = Min(last.events + 1, 2),
                                      !.armed = ArmedOn(app)]
    /\ UNCHANGED <<overflow_checks, listVars, data_handle>>

\* what one tick meets: the answers of get_overview and get_exchange_overview
TickEnvs(world) ==
    [ov_ok : world.fetch_ok, ov : Overviews,
     ex_ok : world.fetch_ok, ex : world.exchange_lists]

\* Event::Tick: app.update()
Tick(world) ==
    /\ pc = "event"
    /\ overview.counter < MaxTicks
    /\ \E tenv \in TickEnvs(world) :
         LET app == App_update(TheApp, tenv)
         IN /\ Adopt(app)
            /\ pc' = IF app.panic THEN "panic" ELSE AfterEvent
            /\ last' = [NoStep EXCEPT !.op = "tick", !.updated = app.updated,
                                      !.pending = Len(data_chan),
                                      !.events = Min(last.events + 1, 2),
                                      !.armed = ArmedOn(app)]
    /\ UNCHANGED <<overflow_checks, listVars, data_handle>>

(***************************************************************************)
(* The refresh thread spawned by QueuesPane::new  (src/views/queues.rs)    *)
(***************************************************************************)
\* `let d = c.get_queues_info();` a failed fetch unwraps into a panic of
\* the thread, which drops tx
ProducerFetch(world) ==
    /\ data_handle.pc = "fetch"
    /\ \E ok \in world.fetch_ok, d \in world.queue_lists :
         data_handle' = IF ok THEN [pc |-> "send", d |-> d]
                        ELSE [pc |-> "panicked", d |-> <<>>]
    /\ UNCHANGED <<overflow_checks, listVars, pc, tabs, overview, exchange,
                   queues, data_chan, rx_alive, calls, last>>

\* where the thread goes when tx.send fails
AfterSendErr_continue == "sleep"

AfterSendErr == "exited"

\* `if tx.send(d).is_err() { break; }`
ProducerSend ==
    /\ data_handle.pc = "send"
    /\ IF rx_alive
       THEN /\ Len(data_chan) < MaxQueue
            /\ data_chan' = Append(data_chan, data_handle.d)
            /\ data_handle' = [pc |-> "sleep", d |-> <<>>]
       ELSE /\ data_handle' = [pc |-> AfterSendErr, d |-> <<>>]
            /\ UNCHANGED data_chan
    /\ UNCHANGED <<overflow_checks, listVars, pc, tabs, overview, exchange,
                   queues, rx_alive, calls, last>>

\* thread::sleep(2_000 ms), then the loop starts over
ProducerSleep ==
    /\ data_handle.pc = "sleep"
    /\ data_handle' = [pc |-> "fetch", d |-> <<>>]
    /\ UNCHANGED <<overflow_checks, listVars, pc, tabs, overview, exchange,
                   queues, data_chan, rx_alive, calls, last>>

(***************************************************************************)
(* Spec: the program from its first instruction, in AppWorld.              *)
(***************************************************************************)
Next ==
    \/ Ping
    \/ AppNew(AppWorld)
    \/ Draw(AppWorld)
    \/ Quit
    \/ Key(AppWorld)
    \/ Tick(AppWorld)
    \/ ProducerFetch(AppWorld)
    \/ ProducerSend
    \/ ProducerSleep

Spec == Init /\ [][Next]_vars

(***************************************************************************)
(* SpecQueues: the program from the moment the Queues tab has been         *)
(* reached (l, l after start-up), in QueuesWorld.                          *)
(***************************************************************************)
InitQueues ==
    /\ overflow_checks \in BOOLEAN
    /\ InitList
    /\ pc = "draw"
    /\ tabs = QueuesIx
    /\ \E ov \in Overviews : overview = OverviewPane_new(ov)
    /\ \E ex \in QueuesWorld.exchange_lists : exchange = ExchangePane_new(ex)
    /\ \E qs \in QueuesWorld.queue_lists : queues = QueuesPane_new(qs)
    /\ data_chan = <<>>
    /\ rx_alive = TRUE
    /\ data_handle = [pc |-> "fetch", d |-> <<>>]
    /\ calls = <<>>
    /\ last = [NoStep EXCEPT !.op = "key", !.key = "l", !.events = 1]

NextQueues ==
    \/ Draw(QueuesWorld)
    \/ Key(QueuesWorld)
    \/ Tick(QueuesWorld)
    \/ ProducerFetch(QueuesWorld)
    \/ ProducerSend
    \/ ProducerSleep

SpecQueues == InitQueues /\ [][NextQueues]_vars

(***************************************************************************)
(* SpecList: one Datatable of any length up to MaxLen, with nothing or a   *)
(* row selected, driven by next() and previous().                          *)
(***************************************************************************)
Rows(n) == [i \in 1..n |-> i]

ListInputs ==
    { [entries |-> Rows(n), selected |-> s] :
        n \in 0..MaxLen, s \in {None} \cup {Some(i) : i \in 0..MaxLen} }

InitListLab ==
    /\ overflow_checks \in BOOLEAN
    /\ lt \in {t \in ListInputs : ~IsSome(t.selected) \/ RowInBounds(t)}
    /\ lt0 = lt
    /\ lops = <<>>
    /\ lpanic = FALSE
    /\ InitApp

ListNext ==
    /\ ~lpanic
    /\ Len(lops) < MaxOps
    /\ lops' = Append(lops, "next")
    /\ IF Datatable_next_panics(lt, overflow_checks)
       THEN lpanic' = TRUE /\ lt' = lt
       ELSE lpanic' = FALSE /\ lt' = Datatable_next(lt)
    /\ UNCHANGED <<overflow_checks, lt0, appVars>>

ListPrevious ==
    /\ ~lpanic
    /\ Len(lops) < MaxOps
    /\ lops' = Append(lops, "previous")
    /\ IF Datatable_previous_panics(lt, overflow_checks)
       THEN lpanic' = TRUE /\ lt' = lt
       ELSE lpanic' = FALSE /\ lt' = Datatable_previous(lt)
    /\ UNCHANGED <<overflow_checks, lt0, appVars>>

NextList ==
    \/ ListNext
    \/ ListPrevious

SpecList == InitListLab /\ [][NextList]_vars

(***************************************************************************)
(* SpecRefresh: the program from its first instruction in a world where    *)
(* every fetch returns its answer, with the refresh thread scheduled       *)
(* fairly.  The Receiver is dropped when main returns (q) or unwinds.      *)
(***************************************************************************)
RefreshWorld ==
    [keys |-> {"j", "l"},
     queue_lists |-> { <<QueueInfo("qa")>>, <<QueueInfo("qb"), QueueInfo("qa")>> },
     exchange_lists |-> { <<"ex1">> },
     binding_lists |-> { <<"b1">> },
     fetch_ok |-> {TRUE}]

NextRefresh ==
    \/ Ping
    \/ AppNew(RefreshWorld)
    \/ Draw(RefreshWorld)
    \/ Quit
    \/ Key(RefreshWorld)
    \/ Tick(RefreshWorld)
    \/ ProducerFetch(RefreshWorld)
    \/ ProducerSend
    \/ ProducerSleep

SpecRefresh == Init /\ [][NextRefresh]_vars

\* the operating system runs the spawned thread whenever it can take a step
SpecRefreshFair ==
    /\ SpecRefresh
    /\ WF_vars(ProducerFetch(RefreshWorld))
    /\ WF_vars(ProducerSend)
    /\ WF_vars(ProducerSleep)

(***************************************************************************)
(* SpecPanes: the program from the moment the Exchanges tab (l) or the     *)
(* Queues tab (l, l) has been reached, with every key the active pane      *)
(* names and no further tab switch.                                        *)
(***************************************************************************)
\* the exchange pane: row navigation, the bindings popout, help
ExchangeWorld ==
    [keys |-> {"j", "Enter", "?"},
     queue_lists |-> { <<QueueInfo("qa")>> },
     exchange_lists |-> { <<"ex1">>, <<"ex1", "ex2">> },
     binding_lists |-> { <<"b1">>, <<"b1", "b2">> },
     fetch_ok |-> {TRUE}]

\* the queue pane: row navigation and the keys that open and close its
\* overlays; the broker has queue qa at start-up and qb is declared later,
\* so that every refresh answers both
OverlayWorld ==
    [keys |-> {"j", "d", "f", "Enter", "?"},
     queue_lists |-> { <<QueueInfo("qb"), QueueInfo("qa")>> },
     exchange_lists |-> { <<"ex1">> },
     binding_lists |-> { <<"b1">> },
     fetch_ok |-> {TRUE}]

PaneWorldOf(t) == IF t = ExchangeIx THEN ExchangeWorld ELSE OverlayWorld

PaneWorld == PaneWorldOf(tabs)

\* the answer of the get_queues_info call in QueuesPane::new
FirstQueues == <<QueueInfo("qa")>>

InitPanes ==
    /\ overflow_checks \in BOOLEAN
    /\ InitList
    /\ pc = "draw"
    /\ tabs \in {ExchangeIx, QueuesIx}
    /\ \E ov \in Overviews : overview = OverviewPane_new(ov)
    /\ \E ex \in PaneWorld.exchange_lists : exchange = ExchangePane_new(ex)
    /\ queues = QueuesPane_new(FirstQueues)
    /\ data_chan = <<>>
    /\ rx_alive = TRUE
    /\ data_handle = [pc |-> "fetch", d |-> <<>>]
    /\ calls = <<>>
    /\ last = [NoStep EXCEPT !.op = "key", !.key = "l", !.events = 1]

NextPanes ==
    \/ Draw(PaneWorld)
    \/ Key(PaneWorld)
    \/ Tick(PaneWorld)
    \/ ProducerFetch(PaneWorld)
    \/ ProducerSend
    \/ ProducerSleep

SpecPanes == InitPanes /\ [][NextPanes]_vars

(***************************************************************************)
(* SpecQuit: the UI loop on any tab, with the overlays of SpecPanes and    *)
(* the q key.                                                              *)
(***************************************************************************)
InitQuit ==
    /\ overflow_checks \in BOOLEAN
    /\ InitList
    /\ pc = "draw"
    /\ tabs \in {OverviewIx, ExchangeIx, QueuesIx}
    /\ \E ov \in Overviews : overview = OverviewPane_new(ov)
    /\ \E ex \in PaneWorld.exchange_lists : exchange = ExchangePane_new(ex)
    /\ queues = QueuesPane_new(FirstQueues)
    /\ data_chan = <<>>
    /\ rx_alive = TRUE
    /\ data_handle = [pc |-> "fetch", d |-> <<>>]
    /\ calls = <<>>
    /\ last = [NoStep EXCEPT !.op = "key", !.key = "l", !.events = 1]

NextQuit ==
    \/ Draw(PaneWorld)
    \/ Key(PaneWorld)
    \/ Quit
    \/ Tick(PaneWorld)
    \/ ProducerFetch(PaneWorld)
    \/ ProducerSend
    \/ ProducerSleep

SpecQuit == InitQuit /\ [][NextQuit]_vars

(***************************************************************************)
(* SpecConfirm: the program from the moment the Queues tab has been        *)
(* reached, driven by the keys of the purge confirmation, with refreshes   *)
(* that add or remove a queue.                                             *)
(***************************************************************************)
ConfirmWorld ==
    [keys |-> {"j", "k", "d", "Enter"},
     queue_lists |-> { <<QueueInfo("qa")>>, <<QueueInfo("qb"), QueueInfo("qa")>> },
     exchange_lists |-> { <<"ex1">> },
     binding_lists |-> { <<"b1">> },
     fetch_ok |-> {TRUE}]

InitConfirm ==
    /\ overflow_checks \in BOOLEAN
    /\ InitList
    /\ pc = "draw"
    /\ tabs = QueuesIx
    /\ \E ov \in Overviews : overview = OverviewPane_new(ov)
    /\ \E ex \in ConfirmWorld.exchange_lists : exchange = ExchangePane_new(ex)
    /\ \E qs \in ConfirmWorld.queue_lists : queues = QueuesPane_new(qs)
    /\ data_chan = <<>>
    /\ rx_alive = TRUE
    /\ data_handle = [pc |-> "fetch", d |-> <<>>]
    /\ calls = <<>>
    /\ last = [NoStep EXCEPT !.op = "key", !.key = "l", !.events = 1]

NextConfirm ==
    \/ Draw(ConfirmWorld)
    \/ Key(ConfirmWorld)
    \/ Tick(ConfirmWorld)
    \/ ProducerFetch(ConfirmWorld)
    \/ ProducerSend
    \/ ProducerSleep

SpecConfirm == InitConfirm /\ [][NextConfirm]_vars

(***************************************************************************)
(* SpecNotif: the queue pane with the keys that raise its notifications:   *)
(* p and Ctrl+p on a row, Enter in the confirmation and in the file        *)
(* browser.  The broker has the one queue qa throughout.                   *)
(***************************************************************************)
NotifWorld ==
    [keys |-> {"j", "p", "^p", "d", "f", "Enter"},
     queue_lists |-> { <<QueueInfo("qa")>> },
     exchange_lists |-> { <<"ex1">> },
     binding_lists |-> { <<"b1">> },
     fetch_ok |-> {TRUE}]

InitNotif ==
    /\ overflow_checks \in BOOLEAN
    /\ InitList
    /\ pc = "draw"
    /\ tabs = QueuesIx
    /\ \E ov \in Overviews : overview = OverviewPane_new(ov)
    /\ \E ex \in NotifWorld.exchange_lists : exchange = ExchangePane_new(ex)
    /\ \E qs \in NotifWorld.queue_lists : queues = QueuesPane_new(qs)
    /\ data_chan = <<>>
    /\ rx_alive = TRUE
    /\ data_handle = [pc |-> "fetch", d |-> <<>>]
    /\ calls = <<>>
    /\ last = [NoStep EXCEPT !.op = "key", !.key = "l", !.events = 1]

NextNotif ==
    \/ Draw(NotifWorld)
    \/ Key(NotifWorld)
    \/ Tick(NotifWorld)
    \/ ProducerFetch(NotifWorld)
    \/ ProducerSend
    \/ ProducerSleep

SpecNotif == InitNotif /\ [][NextNotif]_vars

(***************************************************************************)
(* SpecChart: the overview pane's series under a long run of updates.  The *)
(* first overview is any of ChartSeeds; the update that makes push number  *)
(* i of each series (i = 1, 2, ...) carries ChartUpdate(i).                *)
(***************************************************************************)
MaxPushes == 150

ChartUpdate(i) ==
    [messages |-> i + 2, messages_ready |-> (i % 3) + 1, messages_unacked |-> 1,
     disk_reads_rate |-> i % 2, disk_writes_rate |-> (i % 5) + 2]

ChartSeeds ==
    { [messages |-> m, messages_ready |-> m - 1, messages_unacked |-> 1,
       disk_reads_rate |-> r, disk_writes_rate |-> 2] :
        m \in {2, 7}, r \in {0, 3} }

InitChart ==
    /\ overflow_checks = TRUE
    /\ InitList
    /\ pc = "event"
    /\ tabs = OverviewIx
    /\ \E ov \in ChartSeeds : overview = OverviewPane_new(ov)
    /\ \E ex \in AppWorld.exchange_lists : exchange = ExchangePane_new(ex)
    /\ \E qs \in AppWorld.queue_lists : queues = QueuesPane_new(qs)
    /\ data_chan = <<>>
    /\ rx_alive = TRUE
    /\ data_handle = [pc |-> "fetch", d |-> <<>>]
    /\ calls = <<>>
    /\ last = [NoStep EXCEPT !.op = "draw", !.drawn = OverviewIx,
                             !.tab = OverviewIx, !.draws = 1]

\* OverviewPane::update with a get_overview that answers
OverviewUpdate ==
    /\ overview.data.overall.counter < MaxPushes
    /\ overview' = OverviewPane_update(
                       overview, TRUE,
                       ChartUpdate(overview.data.overall.counter)).pane
    /\ UNCHANGED <<overflow_checks, listVars, pc, tabs, exchange, queues,
                   data_chan, rx_alive, data_handle, calls, last>>

NextChart ==
    \/ OverviewUpdate

SpecChart == InitChart /\ [][NextChart]_vars

(***************************************************************************)
(* SpecFiles: one FileNavigator, constructed on any directory of the tree, *)
(* driven by next(), previous(), select() and select_parent().             *)
(***************************************************************************)
InitFiles ==
    /\ overflow_checks \in BOOLEAN
    /\ \E root \in DOMAIN ReadDir : lt = FileNavigator_new(root)
    /\ lt0 = lt
    /\ lops = <<>>
    /\ lpanic = FALSE
    /\ InitApp

FilesNext ==
    /\ ~lpanic
    /\ Len(lops) < MaxOps
    /\ lops' = Append(lops, "next")
    /\ lt0' = lt
    /\ IF Datatable_next_panics(lt.file_table, overflow_checks)
       THEN lpanic' = TRUE /\ lt' = lt
       ELSE lpanic' = FALSE /\ lt' = FileNavigator_next(lt)
    /\ UNCHANGED <<overflow_checks, appVars>>

FilesPrevious ==
    /\ ~lpanic
    /\ Len(lops) < MaxOps
    /\ lops' = Append(lops, "previous")
    /\ lt0' = lt
    /\ IF Datatable_previous_panics(lt.file_table, overflow_checks)
       THEN lpanic' = TRUE /\ lt' = lt
       ELSE lpanic' = FALSE /\ lt' = FileNavigator_previous(lt)
    /\ UNCHANGED <<overflow_checks, appVars>>

FilesSelect ==
    /\ ~lpanic
    /\ Len(lops) < MaxOps
    /\ lops' = Append(lops, "select")
    /\ lt0' = lt
    /\ IF FileNavigator_select_panics(lt)
       THEN lpanic' = TRUE /\ lt' = lt
       ELSE lpanic' = FALSE /\ lt' = FileNavigator_select(lt).nav
    /\ UNCHANGED <<overflow_checks, appVars>>

FilesSelectParent ==
    /\ ~lpanic
    /\ Len(lops) < MaxOps
    /\ lops' = Append(lops, "select_parent")
    /\ lt0' = lt
    /\ lpanic' = FALSE
    /\ lt' = FileNavigator_select_parent(lt)
    /\ UNCHANGED <<overflow_checks, appVars>>

NextFiles ==
    \/ FilesNext
    \/ FilesPrevious
    \/ FilesSelect
    \/ FilesSelectParent

SpecFiles == InitFiles /\ [][NextFiles]_vars

(***************************************************************************)
Max(a, b) == IF a > b THEN a ELSE b

Range(f) == {f[i] : i \in DOMAIN f}

\* this step dispatched key k
KeyStep(k) ==
    pc = "event" /\ pc' # "event" /\ last'.op = "key" /\ last'.key = k

\* this step dispatched a tick that reached the queue pane's update()
QueuesUpdateStep ==
    /\ pc = "event" /\ pc' # "event" /\ last'.op = "tick"
    /\ QueuesIx \in Range(last'.updated)

\* the calls made so far are n calls of next()
OnlyNext(n) == lops = [i \in 1..n |-> "next"]

\* C1: in every state reached by row navigation and refreshes, the queue
\* table's selected index is None or less than the number of rows, so that
\* every `data.get()[i]` on it is in bounds.
C1_SelectedInBounds ==
    ~IsSome(queues.table.selected) \/ RowInBounds(queues.table)

\* C2: on a list with zero items next() and previous() are no-ops: they
\* never panic and the selection remains None.
C2_EmptyListNoop ==
    Len(lt.entries) = 0 => (lt.selected = None /\ ~lpanic)

\* C3 as claimed: for every length N and every starting selection, nothing
\* selected included, N calls of next() return to the starting selection.
C3_Original ==
    OnlyNext(Len(lt0.entries)) => (lt.selected = lt0.selected /\ ~lpanic)

\* C3: for every length N >= 1 and every starting selection that selects a
\* row, N calls of next() return the selection to that row.
C3_NextClosure ==
    (OnlyNext(Len(lt0.entries)) /\ IsSome(lt0.selected))
        => (lt.selected = lt0.selected /\ ~lpanic)

C3_Witness ==
    /\ OnlyNext(3)
    /\ Len(lt0.entries) = 3
    /\ lt0.selected = Some(1)
    /\ lt.selected = Some(1)

\* C4 as claimed: for every length and every selection s, None included,
\* next() then previous() yields s, and previous() then next() yields s.
C4_Original ==
    lops \in {<<"next", "previous">>, <<"previous", "next">>}
        => (lt.selected = lt0.selected /\ ~lpanic)

\* C4: for every length >= 1 and every selection s that selects a row,
\* next() then previous() yields s, and previous() then next() yields s.
C4_PreviousInvertsNext ==
    (lops \in {<<"next", "previous">>, <<"previous", "next">>}
        /\ IsSome(lt0.selected))
        => (lt.selected = lt0.selected /\ ~lpanic)

C4_Witness ==
    /\ lops = <<"next", "previous">>
    /\ Len(lt0.entries) = 3
    /\ lt0.selected = Some(2)
    /\ lt.selected = Some(2)

\* C5: after any sequence of l and h the active index is in 0..N-1, and the
\* pane drawn and the title highlighted are the ones at that same index.
C5_TabIndexInRange ==
    /\ tabs \in 0..(N - 1)
    /\ tabs + 1 \in DOMAIN Titles
    /\ last.op = "draw" => (last.drawn = tabs /\ last.tab = tabs)

C5_Witness ==
    /\ last.op = "draw"
    /\ last.drawn = N - 1
    /\ last.tab = N - 1

\* k calls of TabsState::next from index i
RECURSIVE NextTimes(_, _)
NextTimes(k, i) == IF k = 0 THEN i ELSE NextTimes(k - 1, TabsState_next(i))

\* C6: with N = 3 tabs, from any active index N calls of next() return to
\* it, previous() from index 0 yields N-1, and previous() undoes next().
C6_TabsWrap ==
    [][/\ KeyStep("l") => /\ NextTimes(N - 1, tabs') = tabs
                          /\ TabsState_previous(tabs') = tabs
       /\ KeyStep("h") => /\ tabs = 0 => tabs' = N - 1
                          /\ TabsState_next(tabs') = tabs]_vars

C6_Witness ==
    /\ last.op = "key"
    /\ last.key = "h"
    /\ tabs = N - 1
    /\ pc = "draw"

\* C7: every key other than q, h, l is delivered to handle_key of exactly
\* the pane at the active index, and no inactive pane's state changes.
C7_KeysToActivePane ==
    [][\A k \in Keys \ {"q", "h", "l"} :
         KeyStep(k) =>
           /\ last'.handled = {tabs}
           /\ tabs' = tabs
           /\ tabs # OverviewIx => overview' = overview
           /\ tabs # ExchangeIx => exchange' = exchange
           /\ tabs # QueuesIx => (queues' = queues /\ data_chan' = data_chan)]_vars

C7_Witness ==
    /\ last.op = "key"
    /\ last.key = "j"
    /\ last.handled = {ExchangeIx}
    /\ tabs = ExchangeIx
    /\ exchange.table.selected = Some(0)
    /\ queues.table.selected = None

C9_OneEventPerDraw ==
    /\ last.events <= 1
    /\ last.draws <= 1
    /\ pc = "event" => (last.op = "draw" /\ last.draws = 1 /\ last.drawn = tabs)
    /\ pc = "draw" => (last.op \in {"none", "key", "tick"} /\ last.draws = 0)
    /\ (pc = "draw" /\ last.op # "none") => last.events = 1

C9_Witness ==
    /\ pc = "draw"
    /\ last.op = "tick"
    /\ last.events = 1

\* C10: one update() of the queue pane takes at most one result from the
\* channel: k pending leave max(k-1, 0), and with none pending the pane is
\* left as it was.
C10_UpdateTakesOne ==
    [][QueuesUpdateStep =>
         /\ Len(data_chan') = Max(Len(data_chan) - 1, 0)
         /\ Len(data_chan) = 0 => queues' = queues]_vars

C10_Witness ==
    /\ last.op = "tick"
    /\ last.pending = 2
    /\ Len(data_chan) = 1
    /\ pc = "draw"

\* C11: whenever the queue pane's update() runs with one or more results
\* pending, the rows displayed after it are the most recently enqueued
\* result.
C11_NewestIsAdopted ==
    [][(QueuesUpdateStep /\ Len(data_chan) > 0) =>
         queues'.table.entries =
             (IF Len(data_chan) > 0 THEN data_chan[Len(data_chan)] ELSE <<>>)]_vars

\* C12: no pane's update() calls a ManagementClient method: a tick makes no
\* client call on the UI thread.
C12_UpdateMakesNoClientCall ==
    last.op = "tick" => calls = <<>>

\* the refresh thread is in its loop
ThreadRunning == data_handle.pc \in {"fetch", "send", "sleep"}

\* C13: once the Receiver has been dropped the refresh thread eventually
\* leaves its loop, at a send that fails, and then neither fetches nor sends
\* again; while the Receiver is alive the thread never leaves the loop.
C13_ProducerTerminates ==
    /\ (~rx_alive /\ ThreadRunning) ~> (data_handle.pc = "exited")
    /\ [][/\ (data_handle.pc # "exited" /\ data_handle'.pc = "exited")
               => (~rx_alive /\ data_handle.pc = "send")
          /\ data_handle.pc = "exited"
               => (data_handle' = data_handle /\ data_chan' = data_chan)
          /\ (rx_alive' /\ ThreadRunning) => ThreadRunning']_vars

C13_Witness ==
    /\ data_handle.pc = "exited"
    /\ ~rx_alive
    /\ pc = "exit"
    /\ Len(data_chan) > 0

\* C14: a failing fetch never terminates the refresh thread: after it the
\* thread is still in its loop and fetches again at the next interval.
C14_FetchFailureKeepsThread ==
    data_handle.pc # "panicked"

\* C15: when the periodic refresh of a pane fails, the UI loop keeps running
\* and the pane keeps its last-known values: no tick ends the loop.
C15_FailedRefreshKeepsLoop ==
    last.op = "tick" => pc # "panic"

\* a key press on which the clipboard and the file system work and
\* pop_queue_item fails
PopFails == [clipboard |-> TRUE, pop |-> "err", read |-> TRUE]

\* C16: a failure of a user-triggered synchronous action never crashes the
\* UI loop: with a row of the queue table selected, Ctrl+p whose
\* pop_queue_item fails is handled without a panic.
C16_FailedActionKeepsLoop ==
    (pc = "event" /\ tabs = QueuesIx /\ RowInBounds(queues.table)) =>
        ~QueuesPane_handle_key(queues, "^p", PopFails, overflow_checks).panic

\* this step dispatched a tick
TickStep == pc = "event" /\ pc' # "event" /\ last'.op = "tick"

\* this step drew the active pane
DrawStep == pc = "draw" /\ last'.op = "draw"

\* C17: update() of a pane changes only the rows of its table: the selected
\* index and every overlay and notification flag (help, confirmation armed
\* and its selection, file browser open and its directory and selection)
\* are as before.
C17_UpdateKeepsSelection ==
    [][TickStep =>
         /\ queues' = [queues EXCEPT !.table.entries = queues'.table.entries]
         /\ exchange' =
              [exchange EXCEPT !.table.entries = exchange'.table.entries]]_vars

C17_Witness ==
    /\ last.op = "tick"
    /\ last.pending = 1
    /\ overview.counter = 1
    /\ tabs = QueuesIx
    /\ queues.table.entries = << QueueInfo("qb"), QueueInfo("qa") >>
    /\ queues.table.selected = Some(0)
    /\ queues.should_confirm
    /\ ConfirmationBox_is_confirmed(queues.confirmation)
    /\ queues.should_show_help
    /\ queues.should_open_files
    /\ queues.explorer # FileNavigator_default

\* C18: the rows a pane displays change only in update(): a result the
\* refresh thread enqueues leaves the pane as it is until the next tick, and
\* neither handle_key of any key nor draw changes the rows of the main table.
C18_OnlyUpdateAdopts ==
    [][/\ queues'.table.entries # queues.table.entries => QueuesUpdateStep
       /\ exchange'.table.entries # exchange.table.entries => TickStep
       /\ data_chan' # data_chan =>
            (QueuesUpdateStep \/ (queues' = queues /\ pc' = pc))]_vars

C18_Witness ==
    /\ last.op = "key"
    /\ last.key = "j"
    /\ tabs = QueuesIx
    /\ Len(data_chan) > 0
    /\ data_chan[1] # queues.table.entries
    /\ queues.table.selected = Some(0)

\* C19 as claimed: draw never changes any selection index or modal flag of
\* the pane; the rows of the lazily fetched drilldown table are all it
\* writes.
C19_Original ==
    [][DrawStep =>
         /\ queues' = queues
         /\ exchange' =
              [exchange EXCEPT
                 !.bindings_table.entries = exchange'.bindings_table.entries,
                 !.should_fetch_bindings = exchange'.should_fetch_bindings]]_vars

\* C19: draw never changes the selected index of a main table nor any
\* overlay flag; all it writes is the drilldown of the exchange pane, on the
\* first draw after Enter with the popout open: the bindings table is
\* replaced by a new one (the fetched rows, nothing selected) and
\* should_fetch_bindings is cleared.
C19_DrawKeepsSelection ==
    [][DrawStep =>
         /\ queues' = queues
         /\ overview' = overview
         /\ tabs' = tabs
         /\ exchange'.table = exchange.table
         /\ exchange'.should_draw_popout = exchange.should_draw_popout
         /\ exchange'.should_show_help = exchange.should_show_help
         /\ exchange' # exchange =>
              /\ exchange.should_draw_popout /\ exchange.should_fetch_bindings
              /\ ~exchange'.should_fetch_bindings
              /\ exchange'.bindings_table.selected = None]_vars

C19_Witness ==
    /\ last.op = "draw"
    /\ tabs = ExchangeIx
    /\ calls = << <<"get_exchange_bindings", "ex1">> >>
    /\ exchange.should_draw_popout
    /\ ~exchange.should_fetch_bindings
    /\ exchange.table.selected = Some(0)
    /\ exchange.bindings_table.entries = <<"b1", "b2">>
    /\ exchange.should_show_help

\* C20: in the queue pane at most one of confirmation armed, file browser
\* open and help open is true in every reachable state.
C20_OverlaysExclusive ==
    /\ ~(queues.should_confirm /\ queues.should_open_files)
    /\ ~(queues.should_confirm /\ queues.should_show_help)
    /\ ~(queues.should_open_files /\ queues.should_show_help)

\* the names of the ManagementClient methods in a call log
Called(cs) == {cs[i][1] : i \in DOMAIN cs}

\* C21: in the queue pane a key goes to one target in priority order:
\* confirmation if armed, else file browser if open, else help if open (only
\* ? closes it), else the main table.  While a higher overlay is active no
\* key moves the main table's selection, toggles another overlay, or
\* publishes, pops or arms a purge.
C21_ModalPrecedence ==
    [][\A k \in Keys :
         (KeyStep(k) /\ tabs = QueuesIx) =>
           /\ queues.should_confirm =>
                /\ queues'.table.selected = queues.table.selected
                /\ queues'.should_open_files = queues.should_open_files
                /\ queues'.explorer = queues.explorer
                /\ queues'.should_show_help = queues.should_show_help
                /\ Called(calls') \subseteq {"purge_queue"}
           /\ (~queues.should_confirm /\ queues.should_open_files) =>
                /\ queues'.table.selected = queues.table.selected
                /\ ~queues'.should_confirm
                /\ queues'.should_show_help = queues.should_show_help
                /\ Called(calls') \subseteq {"post_queue_payload"}
           /\ (~queues.should_confirm /\ ~queues.should_open_files
                 /\ queues.should_show_help) =>
                /\ queues'.table.selected = queues.table.selected
                /\ ~queues'.should_confirm
                /\ ~queues'.should_open_files
                /\ Called(calls') = {}]_vars

\* the option the confirmation box has selected
No == Some(0)
Yes == Some(1)

\* C22 as claimed: d pressed while the confirmation is not armed arms it,
\* with No selected.
C22_Original ==
    [][(KeyStep("d") /\ tabs = QueuesIx /\ ~queues.should_confirm) =>
         /\ queues'.should_confirm
         /\ queues'.confirmation.table.selected = No]_vars

\* C22: d pressed while the confirmation is not armed and a row of the queue
\* table is selected arms it, with No selected; with no row selected d
\* leaves it unarmed.
C22_ArmOnSelectedRow ==
    [][(KeyStep("d") /\ tabs = QueuesIx /\ ~queues.should_confirm) =>
         /\ queues'.should_confirm = IsSome(queues.table.selected)
         /\ queues'.confirmation.table.selected = No
         /\ queues'.table = queues.table
         /\ pc' = AfterEvent]_vars

C22_Witness ==
    /\ last.op = "key"
    /\ last.key = "d"
    /\ tabs = QueuesIx
    /\ queues.should_confirm
    /\ queues.confirmation.table.selected = No
    /\ queues.table.selected = Some(1)

\* the confirmation is armed with No selected
ArmedNo ==
    /\ tabs = QueuesIx
    /\ queues.should_confirm
    /\ queues.confirmation.table.selected = No

\* the confirmation box after n calls of next()
RECURSIVE ConfirmationNextTimes(_, _)
ConfirmationNextTimes(n, c) ==
    IF n = 0 THEN c ELSE ConfirmationNextTimes(n - 1, ConfirmationBox_next(c))

\* C23 as claimed: from armed with No selected, after two next() calls the
\* selection is Yes.
C23_Original ==
    ArmedNo => ConfirmationBox_is_confirmed(
                   ConfirmationNextTimes(2, queues.confirmation))

\* C23: from armed with No selected, one next() call selects Yes and two
\* next() calls select No again: the selection wraps over [No, Yes] every 2
\* presses; j pressed while armed is one next() call.
C23_ConfirmationWraps ==
    /\ [](ArmedNo =>
            /\ ConfirmationNextTimes(1, queues.confirmation).table.selected = Yes
            /\ ConfirmationNextTimes(2, queues.confirmation) = queues.confirmation)
    /\ [][(KeyStep("j") /\ tabs = QueuesIx /\ queues.should_confirm) =>
            /\ queues'.confirmation = ConfirmationBox_next(queues.confirmation)
            /\ queues'.should_confirm
            /\ queues.confirmation.table.selected = No
                 => queues'.confirmation.table.selected = Yes
            /\ queues.confirmation.table.selected = Yes
                 => queues'.confirmation.table.selected = No]_vars

\* j pressed while armed has wrapped the selection from Yes back to No
C23_Witness ==
    /\ ArmedNo
    /\ last.op = "key"
    /\ last.key = "j"

C25_YesPurgesOnce ==
    [][(/\ KeyStep("Enter")
        /\ tabs = QueuesIx
        /\ queues.should_confirm
        /\ queues.confirmation.table.selected = Yes
        /\ IsSome(queues.table.selected)) =>
         /\ pc' = AfterEvent
         /\ RowInBounds(queues.table)
         /\ calls' = << <<"purge_queue", SelectedRow(queues.table).name,
                          SelectedRow(queues.table).vhost>> >>
         /\ queues'.should_notif_purged
         /\ ~queues'.should_confirm
         /\ queues'.confirmation.table.selected = No]_vars

\* C26: after any Enter pressed while armed, with No or Yes selected and
\* whether or not the purge was made, the confirmation is unarmed and its
\* selection is No; so in every reachable state in which it is unarmed its
\* selection is No.
C26_ConfirmAlwaysResets ==
    /\ [][(KeyStep("Enter") /\ tabs = QueuesIx /\ queues.should_confirm) =>
            /\ ~queues'.should_confirm
            /\ queues'.confirmation.table.selected = No]_vars
    /\ [](~queues.should_confirm => queues.confirmation.table.selected = No)

\* the five series of the overview pane
AllSeries ==
    <<overview.data.overall, overview.data.ready, overview.data.unacked,
      overview.data.disk_read_rate, overview.data.disk_write_rate>>

\* the value the update for push number i carries for series s of AllSeries
PushedValue(s, i) ==
    LET u == ChartUpdate(i)
    IN CASE s = 1 -> u.messages
         [] s = 2 -> u.messages_ready
         [] s = 3 -> u.messages_unacked
         [] s = 4 -> u.disk_reads_rate
         [] s = 5 -> u.disk_writes_rate

\* C27: after any number of pushes a series retains at most X_WINDOW (100)
\* samples, and the x of each retained sample is the x of the one before it
\* plus 1.
C27_WindowInvariant ==
    \A s \in DOMAIN AllSeries :
        LET d == AllSeries[s].data
        IN /\ Len(d) <= X_WINDOW
           /\ \A j \in 1..(Len(d) - 1) : d[j + 1][1] = d[j][1] + 1

C27_Witness ==
    /\ overview.data.overall.counter = X_WINDOW + 50
    /\ Len(overview.data.overall.data) = X_WINDOW
    /\ overview.data.overall.data[1][1] = 50
    /\ overview.data.overall.data[X_WINDOW][1] = X_WINDOW + 49

\* C28: after X_WINDOW + k pushes (k >= 1) on a fresh series it holds
\* exactly X_WINDOW samples, and they are the X_WINDOW most recent pushes in
\* push order: the oldest k pushes are gone.
C28_KeepsMostRecent ==
    \A s \in DOMAIN AllSeries :
        LET c == AllSeries[s]
            k == c.counter - X_WINDOW
        IN k >= 1 =>
             /\ Len(c.data) = X_WINDOW
             /\ \A j \in 1..X_WINDOW :
                  c.data[j] = <<k + j - 1, PushedValue(s, k + j - 1)>>

C28_Witness ==
    /\ overview.data.ready.counter = X_WINDOW + 3
    /\ Len(overview.data.ready.data) = X_WINDOW
    /\ overview.data.ready.data[1] = <<3, PushedValue(2, 3)>>
    /\ overview.data.ready.data[X_WINDOW] =
         <<X_WINDOW + 2, PushedValue(2, X_WINDOW + 2)>>

C30_YBounds ==
    LET panel == MessagesPanel(overview)
        vals == UNION {ChartData_values(panel[i]) : i \in DOMAIN panel}
        lo == CHOOSE v \in vals : \A w \in vals : v <= w
        hi == CHOOSE v \in vals : \A w \in vals : w <= v
    IN RChart_draw(panel).y_bounds_tenths = <<lo * 10, hi * Y_PADDING_TENTHS>>

\* C31: each of the five series of the overview pane holds at least one
\* sample in every state, from construction on and after any number of
\* evicting pushes, so that last_value(), y_max() and x_max() always have a
\* sample to read; the five series hold the same number of samples and
\* carry the same counter.
C31_SeriesNeverEmpty ==
    \A s \in DOMAIN AllSeries :
        /\ Len(AllSeries[s].data) >= 1
        /\ ChartData_last_value(AllSeries[s]) \in ChartData_values(AllSeries[s])
        /\ ChartData_y_max(AllSeries[s]) \in ChartData_values(AllSeries[s])
        /\ ChartData_x_max(AllSeries[s]) = AllSeries[s].data[Len(AllSeries[s].data)][1] + 1
        /\ Len(AllSeries[s].data) = Len(AllSeries[1].data)
        /\ AllSeries[s].counter = AllSeries[1].counter

\* an update has just evicted the seed of every series: X_WINDOW pushes
\* after the seed, each series is full and starts at the sample after it
C31_Witness ==
    /\ overview.counter = X_WINDOW
    /\ \A s \in DOMAIN AllSeries :
         /\ Len(AllSeries[s].data) = X_WINDOW
         /\ AllSeries[s].data[1][1] = 1

\* the listing of directory dir as the file browser shows it: the paths of
\* its entries whose name does not start with ".", in directory order, the
\* first one selected, nothing selected when there is none
Listing(dir) ==
    LET all == [i \in 1..Len(ReadDir[dir]) |-> Append(dir, ReadDir[dir][i])]
        shown(f) == f[Len(f)] \notin {".cfg"}
    IN [entries |-> SelectSeq(all, shown),
        selected |-> IF SelectSeq(all, shown) = <<>> THEN None ELSE Some(0)]

\* the last call made was op
LastOp(op) == Len(lops) > 0 /\ lops[Len(lops)] = op

PaneBrowsing(nav, open) ==
    [QueuesPane_new(<<>>) EXCEPT !.explorer = nav, !.should_open_files = open]

NothingBuilt ==
    /\ overview = Unbuilt /\ exchange = Unbuilt /\ queues = Unbuilt
    /\ data_handle = NoThread /\ data_chan = <<>> /\ ~rx_alive

\* C34: the first thing the program does is one health check (ping), with
\* nothing built before it.  When it fails, main returns at once: no pane
\* is constructed, no refresh thread is started, nothing is drawn and no
\* event is consumed, and no further step is taken.  The panes are built,
\* and the UI loop entered, only from a ping that succeeded, and no other
\* ping is ever made.
C34_HealthCheckFirst ==
    /\ [](pc = "ping" => (NothingBuilt /\ calls = <<>> /\ last = NoStep))
    /\ [][pc = "ping" =>
            /\ Called(calls') = {"ping"} /\ Len(calls') = 1
            /\ pc' \in {"new", "exit"}
            /\ UNCHANGED <<overview, exchange, queues, data_handle, data_chan,
                           rx_alive, last>>]_vars
    /\ [](calls = << <<"ping", "Err">> >> =>
            (pc = "exit" /\ NothingBuilt /\ last = NoStep))
    /\ [][calls = << <<"ping", "Err">> >> => FALSE]_vars
    /\ [](pc = "new" => (calls = << <<"ping", "Ok">> >> /\ NothingBuilt))
    /\ [][(pc' \in {"draw", "event"} /\ pc \notin {"draw", "event"})
            => pc = "new"]_vars
    /\ [][(pc # "ping" /\ calls' # calls) => "ping" \notin Called(calls')]_vars

\* the health check has failed and main has returned with nothing built
C34_Witness ==
    /\ pc = "exit"
    /\ calls = << <<"ping", "Err">> >>
    /\ NothingBuilt
    /\ last.draws = 0 /\ last.events = 0

\* C35: in every state in which the loop waits for an event, whatever the
\* active tab and whatever overlay is open, q can be taken, and taking it
\* ends the loop: no pane's handle_key is called, no ManagementClient call
\* is made, no pane and no tab index changes, and after it the loop never
\* draws or dispatches again.
C35_QuitFromEveryState ==
    /\ [](pc = "event" => ENABLED Quit)
    /\ [][KeyStep("q") =>
            /\ pc' = "exit"
            /\ last'.handled = {}
            /\ calls' = <<>>
            /\ UNCHANGED <<tabs, overview, exchange, queues, data_chan>>]_vars
    /\ [][pc = "exit" =>
            /\ pc' = "exit"
            /\ UNCHANGED <<tabs, overview, exchange, queues, last, calls>>]_vars

\* q has ended the loop on the queue tab while the purge confirmation was
\* armed with Yes selected
C35_Witness ==
    /\ pc = "exit"
    /\ last.key = "q"
    /\ tabs = QueuesIx
    /\ queues.should_confirm
    /\ ConfirmationBox_is_confirmed(queues.confirmation)
    /\ calls = <<>>

\* C36: a step that dispatches h or l moves the active tab index by one
\* place (with wraparound) and does nothing else: no pane's handle_key is
\* called, no ManagementClient call is made, and the state of every pane,
\* the one left and the one arrived at included, is what it was.
C36_TabSwitchKeepsPanes ==
    [][(KeyStep("h") \/ KeyStep("l")) =>
         /\ tabs' = IF last'.key = "l" THEN (tabs + 1) % N ELSE (tabs + N - 1) % N
         /\ last'.handled = {}
         /\ calls' = <<>>
         /\ pc' = "draw"
         /\ UNCHANGED <<overview, exchange, queues, data_chan>>]_vars

\* h from the overview tab has come back to the queue tab, whose row
\* selection and help overlay are as they were left
C36_Witness ==
    /\ last.op = "key" /\ last.key = "h"
    /\ tabs = QueuesIx
    /\ queues.table.selected = Some(0)
    /\ queues.should_show_help
    /\ exchange.table.selected = Some(0)

\* C37: every purge_queue call names the queue that was selected when the
\* confirmation it confirms was armed with d, whatever refreshes were
\* adopted between d and the confirming Enter.
C37_PurgesArmedQueue ==
    \A i \in DOMAIN calls :
        calls[i][1] = "purge_queue" => calls[i][2] = last.armed

\* C38: the channel between the refresh thread and the pane is first in,
\* first out, and the pane displays results in the order they were
\* produced: the thread only appends the result it has fetched at the end
\* of the channel, update() only removes the result at the front and
\* displays that one, and the rows displayed change in no other way; so
\* the results displayed are, in order, the first ones produced, and a
\* result older than one already displayed is never displayed later.
C38_AdoptedInProductionOrder ==
    /\ [][data_chan' # data_chan =>
            \/ /\ data_handle.pc = "send"
               /\ data_chan' = Append(data_chan, data_handle.d)
               /\ queues' = queues
            \/ /\ QueuesUpdateStep
               /\ Len(data_chan) > 0
               /\ data_chan' = Tail(data_chan)
               /\ queues'.table.entries = Head(data_chan)]_vars
    /\ [][queues'.table.entries # queues.table.entries =>
            /\ QueuesUpdateStep
            /\ Len(data_chan) > 0
            /\ queues'.table.entries = Head(data_chan)
            /\ data_chan' = Tail(data_chan)]_vars
    /\ [][(QueuesUpdateStep /\ Len(data_chan) > 0) =>
            /\ queues'.table.entries = Head(data_chan)
            /\ data_chan' = Tail(data_chan)]_vars

\* [qa] was produced before [qb, qa]; a tick that found both pending has
\* displayed [qa] and left [qb, qa] for the next tick
C38_Witness ==
    /\ last.op = "tick"
    /\ last.pending = 2
    /\ queues.table.entries = <<QueueInfo("qa")>>
    /\ data_chan = << <<QueueInfo("qb"), QueueInfo("qa")>> >>

\* the five notification flags of a queue pane, and how many are set
Notifs(q) ==
    <<q.should_notif_paste, q.should_notif_copy, q.should_notif_no_msg,
      q.should_notif_purged, q.should_notif_from_file>>

NotifCount(q) == Cardinality({i \in 1..5 : Notifs(q)[i]})

\* C39: at most one of the queue pane's five notification flags is set in
\* any state.  A key delivered to the pane leaves set only a flag that this
\* very key raises (p: pasted; Ctrl+p: copied or no message; Enter in the
\* confirmation: purged; Enter in the file browser: posted from file), so
\* the notification of the key before is gone.  A tick, a draw and the
\* refresh thread leave the five flags as they are.
C39_Notifications ==
    /\ [](NotifCount(queues) <= 1)
    /\ [](\A k \in Keys \ {"q", "h", "l"}, env \in Envs :
            LET r == QueuesPane_handle_key(queues, k, env, overflow_checks)
            IN /\ NotifCount(r.pane) <= 1
               /\ k \notin {"p", "^p", "Enter"} => NotifCount(r.pane) = 0)
    /\ [][(\E k \in Keys : KeyStep(k)) =>
            /\ queues'.should_notif_paste => last'.key = "p"
            /\ queues'.should_notif_copy => last'.key = "^p"
            /\ queues'.should_notif_no_msg => last'.key = "^p"
            /\ queues'.should_notif_purged =>
                 (last'.key = "Enter" /\ queues.should_confirm)
            /\ queues'.should_notif_from_file =>
                 (last'.key = "Enter" /\ ~queues.should_confirm
                  /\ queues.should_open_files)]_vars
    /\ [][~(\E k \in Keys : KeyStep(k)) => Notifs(queues') = Notifs(queues)]_vars

\* a tick has passed while the "posted from file" notification is shown:
\* it is still the one flag set
C39_Witness ==
    /\ last.op = "tick"
    /\ QueuesIx \in Range(last.updated)
    /\ Notifs(queues) = <<FALSE, FALSE, FALSE, FALSE, TRUE>>
    /\ ~queues.should_open_files

\* the last event was Enter on the exchange tab, and it has left the popout
\* open on a selected exchange
OpenedOnExchange ==
    /\ last.op = "key" /\ last.key = "Enter"
    /\ tabs = ExchangeIx
    /\ exchange.should_draw_popout
    /\ RowInBounds(exchange.table)

\* C40: an Enter that opens the exchange popout on a selected exchange makes
\* no call itself and is followed by a draw; that draw makes exactly one
\* get_exchange_bindings call, for the exchange selected, and keeps the
\* popout open.  No other step makes the call: not a later draw while the
\* popout stays open, not a draw after the Enter that closes it, not a key
\* or a tick.  With no exchange selected no call is made and no popout is
\* drawn.
C40_OneFetchPerOpening ==
    /\ [][(KeyStep("Enter") /\ tabs = ExchangeIx
           /\ ~exchange.should_draw_popout /\ RowInBounds(exchange.table)) =>
            /\ exchange'.should_draw_popout
            /\ exchange'.table = exchange.table
            /\ calls' = <<>>
            /\ pc' = "draw"]_vars
    /\ [][(DrawStep /\ OpenedOnExchange) =>
            /\ calls' = << <<"get_exchange_bindings",
                             exchange.table.entries[Unwrap(exchange.table.selected) + 1]>> >>
            /\ exchange'.should_draw_popout
            /\ pc' = "event"]_vars
    /\ [][(DrawStep /\ ~OpenedOnExchange) => calls' = <<>>]_vars
    /\ [][(~DrawStep /\ calls' # calls) =>
            "get_exchange_bindings" \notin Called(calls')]_vars
    /\ [][(KeyStep("Enter") /\ tabs = ExchangeIx /\ exchange.should_draw_popout) =>
            (~exchange'.should_draw_popout /\ calls' = <<>>)]_vars
    /\ [](~IsSome(exchange.table.selected) => ~ExchangePane_draws_popout(exchange))

\* the draw after Enter on the second exchange has fetched the bindings of
\* ex2, once, and shows them in the popout
C40_Witness ==
    /\ last.op = "draw"
    /\ tabs = ExchangeIx
    /\ calls = << <<"get_exchange_bindings", "ex2">> >>
    /\ exchange.table.selected = Some(1)
    /\ ExchangePane_draws_popout(exchange)
    /\ ~exchange.should_fetch_bindings
    /\ exchange.bindings_table = Datatable_new(<<"b1", "b2">>)

====
